---- MODULE Spec2Model ----
(***************************************************************************)
(* Model of scripts/parse-pr-urls.js: the scan of a pull-request body for  *)
(* Before:/After: URL pairs, the reachability check of each pair, and the  *)
(* append of the surviving pairs to backstop.json; and of                  *)
(* scripts/backstop-local.js: the wrapper that backs up backstop.json and  *)
(* cookies.json, rewrites their URLs, runs backstop and restores them.     *)
(*                                                                         *)
(* A string is a sequence of characters; a character is a one-character    *)
(* TLA+ string, except U+2022 (the bullet), which the TLA+ lexer does not  *)
(* accept inside a string and which is written "U+2022".  An optional      *)
(* value (null / undefined in the source) is a sequence of length 0 or 1.  *)
(***************************************************************************)
EXTENDS Integers, Sequences, FiniteSets, TLC

VARIABLES
    prBody,          \* argument of parsePRBody / main's prBody: None when not supplied
    caller,          \* "main" when the process runs main(), "lib" for a call of an exported function
    pc,              \* position of the single thread of control
    lines,           \* parsePRBody: the trimmed lines
    i,               \* parsePRBody: index of the line the scan is at (1-based)
    currentBefore,   \* parsePRBody: pending before value (optional)
    currentAfter,    \* parsePRBody: pending after value (optional)
    potentialPairs,  \* parsePRBody: candidate pairs
    beforeAt,        \* history: line at which currentBefore was assigned (0: none)
    afterAt,         \* history: line at which currentAfter was assigned (0: none)
    pairSrc,         \* history: for each candidate pair, <<line of its before, line of its after>>
    p,               \* parsePRBody: index of the candidate pair under validation
    beforeCheck,     \* validateUrl(pair.before): "idle", "inflight", "true", "false"
    afterCheck,      \* validateUrl(pair.after): "idle", "inflight", "true", "false"
    checks,          \* every promise validateUrl has returned, by <<pair index, side>>
    lateCalls,       \* history: handler runs of requests whose promise had settled
    urlPairs,        \* validated pairs
    warnings,        \* the warnings written to the console
    net,             \* environment: what a check of each URL meets
    file,            \* environment: the file at backstopPath
    backstopConfig,  \* updateBackstopConfig: the parsed document (optional)
    exitCode,        \* exit code of the process (optional)
    thrown,          \* the step whose error was thrown out of updateBackstopConfig (optional)
    writes,          \* history: number of writeFileSync calls on backstopPath
    file0,           \* history: the file at backstopPath when the first run started
    exits,           \* history: the exit codes of the earlier runs of the process
    argv,            \* backstop-local: process.argv.slice(2)
    config,          \* backstop-local: what parseArgs returned (optional)
    lpc,             \* backstop-local: position of the process ("off": not started)
    disk,            \* backstop-local: the content of each of the four paths (optional)
    localExit,       \* backstop-local: exit code of the process (optional)
    disk0,           \* history: disk when the run started
    written,         \* history: the paths the process has written (copy destination or write)
    backedUp,        \* history: "no" until backupConfig is called, then "ok" or "failed"
    restoreFailed,   \* history: a copy inside restoreConfig has failed
    exitPath         \* history: the way the process came to exit (optional)

vars == <<prBody, caller, pc, lines, i, currentBefore, currentAfter, potentialPairs,
          beforeAt, afterAt, pairSrc, p, beforeCheck, afterCheck, checks, lateCalls,
          urlPairs, warnings,
          net, file, backstopConfig, exitCode, thrown, writes, file0, exits,
          argv, config, lpc, disk, localExit, disk0, written, backedUp, restoreFailed,
          exitPath>>

\* the variables of backstop-local
localVars == <<argv, config, lpc, disk, localExit, disk0, written, backedUp, restoreFailed,
               exitPath>>

None == <<>>
Some(v) == <<v>>
IsSome(o) == Len(o) = 1
Get(o) == o[1]

(***************************************************************************)
(* Characters.                                                             *)
(***************************************************************************)
Bullet == "U+2022"
LF == "\n"
CR == "\r"
TAB == "\t"
\* what String.prototype.trim strips and the regular expression's \s matches
WhiteSpace == {" ", TAB, CR, LF}
\* what the regular expression's . does not match
LineTerminator == {CR, LF}
\* the class [\*\-U+2022\s]
BulletClass == {"*", "-", Bullet} \cup WhiteSpace

RECURSIVE LeadingRun(_, _)
\* length of the longest prefix of s made of characters of set
LeadingRun(s, set) ==
    IF s = <<>> \/ s[1] \notin set THEN 0 ELSE 1 + LeadingRun(Tail(s), set)

RECURSIVE TrailingRun(_, _)
TrailingRun(s, set) ==
    IF s = <<>> \/ s[Len(s)] \notin set THEN 0
    ELSE 1 + TrailingRun(SubSeq(s, 1, Len(s) - 1), set)

Drop(s, n) == SubSeq(s, n + 1, Len(s))

\* String.prototype.trim
Trim(s) ==
    LET a == LeadingRun(s, WhiteSpace)
    IN  IF a = Len(s) THEN <<>>
        ELSE SubSeq(s, a + 1, Len(s) - TrailingRun(s, WhiteSpace))

RECURSIVE SplitLines(_)
\* prBody.split('\n')
SplitLines(s) ==
    LET k == LeadingRun(s, {c \in {s[j] : j \in 1..Len(s)} : c # LF})
    IN  IF k = Len(s) THEN <<s>>
        ELSE <<SubSeq(s, 1, k)>> \o SplitLines(Drop(s, k + 1))

\* prBody.split('\n').map((line) => line.trim())
TrimmedLines(s) == [j \in 1..Len(SplitLines(s)) |-> Trim(SplitLines(s)[j])]

IsPrefix(a, s) == Len(a) <= Len(s) /\ SubSeq(s, 1, Len(a)) = a

\* The capture group of \s*(.+)$ on rest: \s* takes as much white space as
\* leaves (.+) a non-empty remainder free of line terminators; None when no
\* split of rest does.
CaptureGroup(rest) ==
    LET W  == LeadingRun(rest, WhiteSpace)
        ok == {j \in 0..W : /\ j < Len(rest)
                            /\ \A k \in (j + 1)..Len(rest) : rest[k] \notin LineTerminator}
    IN  IF ok = {} THEN None
        ELSE Some(Drop(rest, CHOOSE j \in ok : \A k \in ok : k <= j))

KeywordFormsCapitalOnly(kw) ==
    IF kw = "before"
    THEN {<<"B", "e", "f", "o", "r", "e", ":">>}
    ELSE {<<"A", "f", "t", "e", "r", ":">>}

\* The keyword as the regular expressions spell it: [Bb]efore:, [Aa]fter:
KeywordForms(kw) ==
    IF kw = "before"
    THEN {<<"B", "e", "f", "o", "r", "e", ":">>, <<"b", "e", "f", "o", "r", "e", ":">>}
    ELSE {<<"A", "f", "t", "e", "r", ":">>, <<"a", "f", "t", "e", "r", ":">>}

\* line.match(/^[\*\-U+2022\s]*[Bb]efore:\s*(.+)$/), and the same for [Aa]fter:
\* the capture group when the line matches, None when it does not
MatchMarker(kw, line) ==
    LET s == Drop(line, LeadingRun(line, BulletClass))
        forms == {f \in KeywordForms(kw) : IsPrefix(f, s)}
    IN  IF forms = {} THEN None
        ELSE CaptureGroup(Drop(s, Len(CHOOSE f \in forms : TRUE)))

\* a JavaScript string is truthy unless it is empty; null is falsy
Truthy(o) == IsSome(o) /\ Get(o) # <<>>

(***************************************************************************)
(* parsePRBody                                                             *)
(***************************************************************************)
PairSwapped(b, a) == [before |-> a, after |-> b]

\* { before: currentBefore, after: currentAfter }
Pair(b, a) == [before |-> b, after |-> a]

scanVars == <<lines, i, currentBefore, currentAfter, potentialPairs, beforeAt, afterAt, pairSrc>>
checkVars == <<p, beforeCheck, afterCheck, checks, lateCalls>>
envVars == <<net, file, file0, writes, exits>>
updateVars == <<backstopConfig>>

\* where control goes when parsePRBody returns
AfterParse == IF caller = "main" THEN "main_parsed" ELSE "returned"

\* if (!prBody) return []; otherwise split and trim the lines
ParseStart ==
    /\ pc = "parse"
    /\ IF ~Truthy(prBody)
       THEN /\ urlPairs' = <<>>
            /\ pc' = AfterParse
            /\ UNCHANGED scanVars
       ELSE /\ lines' = TrimmedLines(Get(prBody))
            /\ i' = 1
            /\ currentBefore' = None
            /\ currentAfter' = None
            /\ potentialPairs' = <<>>
            /\ beforeAt' = 0
            /\ afterAt' = 0
            /\ pairSrc' = <<>>
            /\ pc' = "scan"
            /\ UNCHANGED urlPairs
    /\ UNCHANGED <<localVars, prBody, caller, checkVars, warnings, envVars, updateVars, exitCode, thrown>>

\* the line matches the Before pattern: currentBefore is overwritten, continue
ScanBefore ==
    /\ pc = "scan" /\ i <= Len(lines)
    /\ IsSome(MatchMarker("before", lines[i]))
    /\ currentBefore' = Some(Trim(Get(MatchMarker("before", lines[i]))))
    /\ beforeAt' = i
    /\ i' = i + 1
    /\ UNCHANGED <<localVars, prBody, caller, pc, lines, currentAfter, potentialPairs, afterAt, pairSrc,
                   checkVars, urlPairs, warnings, envVars, updateVars, exitCode, thrown>>

\* the condition under which the After branch emits a candidate pair
EmitCondition(before, after) == Truthy(before) /\ Truthy(after)

SlotKept(slot) == slot

\* what a slot holds after a candidate pair was pushed: currentBefore = null; currentAfter = null
SlotAfterEmit(slot) == None

\* the line matches the After pattern (and not the Before pattern): currentAfter
\* is overwritten; with both slots set a candidate pair is pushed and both are reset
ScanAfter ==
    /\ pc = "scan" /\ i <= Len(lines)
    /\ ~IsSome(MatchMarker("before", lines[i]))
    /\ IsSome(MatchMarker("after", lines[i]))
    /\ LET after == Some(Trim(Get(MatchMarker("after", lines[i]))))
       IN  IF EmitCondition(currentBefore, after)
           THEN /\ potentialPairs' = Append(potentialPairs, Pair(Get(currentBefore), Get(after)))
                /\ pairSrc' = Append(pairSrc, <<beforeAt, i>>)
                /\ currentBefore' = SlotAfterEmit(currentBefore)
                /\ currentAfter' = SlotAfterEmit(after)
                /\ beforeAt' = IF currentBefore' = None THEN 0 ELSE beforeAt
                /\ afterAt' = IF currentAfter' = None THEN 0 ELSE i
           ELSE /\ currentAfter' = after
                /\ afterAt' = i
                /\ UNCHANGED <<potentialPairs, pairSrc, currentBefore, beforeAt>>
    /\ i' = i + 1
    /\ UNCHANGED <<localVars, prBody, caller, pc, lines, checkVars, urlPairs, warnings, envVars,
                   updateVars, exitCode, thrown>>

\* the line matches neither pattern
ScanOther ==
    /\ pc = "scan" /\ i <= Len(lines)
    /\ ~IsSome(MatchMarker("before", lines[i]))
    /\ ~IsSome(MatchMarker("after", lines[i]))
    /\ i' = i + 1
    /\ UNCHANGED <<localVars, prBody, caller, pc, lines, currentBefore, currentAfter, potentialPairs,
                   beforeAt, afterAt, pairSrc, checkVars, urlPairs, warnings, envVars,
                   updateVars, exitCode, thrown>>

\* the for loop over the lines ends; urlPairs = []
ScanEnd ==
    /\ pc = "scan" /\ i > Len(lines)
    /\ urlPairs' = <<>>
    /\ p' = 1
    /\ pc' = "validate"
    /\ UNCHANGED <<localVars, prBody, caller, scanVars, beforeCheck, afterCheck, checks, lateCalls,
                   warnings, envVars, updateVars, exitCode, thrown>>

(***************************************************************************)
(* validateUrl.  net[url] is what a check of url meets: "malformed" when   *)
(* new URL(url) throws, an HTTP status code when a response arrives,       *)
(* "error" when the request emits 'error', "timeout" when it times out.    *)
(***************************************************************************)
StatusCodes == {200, 404, 500}
Response(code) == [kind |-> "response", statusCode |-> code]
Fault(k) == [kind |-> k, statusCode |-> 0]
Outcomes == {Response(c) : c \in StatusCodes} \cup {Fault(k) : k \in {"malformed", "error", "timeout"}}

\* the promise's executor: a malformed URL resolves false at once, any other
\* URL has its HEAD request sent
StartCheck(url) == IF net[url].kind = "malformed" THEN "false" ELSE "inflight"

ResponseResultAnyStatus(statusCode) == "true"

\* resolve(res.statusCode === 200)
ResponseResult(statusCode) == IF statusCode = 200 THEN "true" ELSE "false"

\* the value the promise of an in-flight request resolves to: the response
\* callback's, or false from the 'error' and 'timeout' handlers
SettleCheck(url) ==
    IF net[url].kind = "response" THEN ResponseResult(net[url].statusCode) ELSE "false"

ResolveAgain(promise, value) == [state |-> value, settled |-> promise.settled + 1]

\* resolve(value) on a promise: it settles a pending promise and does nothing
\* to a settled one
Resolve(promise, value) ==
    IF promise.state = "inflight"
    THEN [state |-> value, settled |-> promise.settled + 1]
    ELSE promise

\* new Promise((resolve) => ...): pending, never settled
Pending == [state |-> "inflight", settled |-> 0]

\* the promise validateUrl(url) returns, as its executor leaves it
NewCheck(url) ==
    IF StartCheck(url) = "inflight" THEN Pending ELSE Resolve(Pending, StartCheck(url))

\* the URL the check <<pair index, side>> is about
UrlOf(c) == IF c[2] = "before" THEN potentialPairs[c[1]].before ELSE potentialPairs[c[1]].after

\* for (const pair of potentialPairs): Promise.all([validateUrl(before), validateUrl(after)])
StartChecks ==
    /\ pc = "validate" /\ p <= Len(potentialPairs)
    /\ beforeCheck' = NewCheck(potentialPairs[p].before).state
    /\ afterCheck' = NewCheck(potentialPairs[p].after).state
    /\ checks' = checks @@ (<<p, "before">> :> NewCheck(potentialPairs[p].before))
                        @@ (<<p, "after">> :> NewCheck(potentialPairs[p].after))
    /\ pc' = "await"
    /\ UNCHANGED <<localVars, prBody, caller, scanVars, p, lateCalls, urlPairs, warnings, envVars,
                   updateVars, exitCode, thrown>>

\* the request for pair.before yields a response, an error or a timeout
SettleBefore ==
    /\ pc = "await" /\ beforeCheck = "inflight"
    /\ checks' = [checks EXCEPT ![<<p, "before">>] = Resolve(@, SettleCheck(potentialPairs[p].before))]
    /\ beforeCheck' = checks'[<<p, "before">>].state
    /\ UNCHANGED <<localVars, prBody, caller, pc, scanVars, p, afterCheck, lateCalls, urlPairs, warnings,
                   envVars, updateVars, exitCode, thrown>>

\* the request for pair.after yields a response, an error or a timeout
SettleAfter ==
    /\ pc = "await" /\ afterCheck = "inflight"
    /\ checks' = [checks EXCEPT ![<<p, "after">>] = Resolve(@, SettleCheck(potentialPairs[p].after))]
    /\ afterCheck' = checks'[<<p, "after">>].state
    /\ UNCHANGED <<localVars, prBody, caller, pc, scanVars, p, beforeCheck, lateCalls, urlPairs, warnings,
                   envVars, updateVars, exitCode, thrown>>

MaxLateCalls == 1

\* A handler of a request runs after the request's promise has settled and
\* calls resolve(false): the 'error' handler after the 'timeout' handler
\* destroyed the request, or the 'timeout' handler on the idle socket of a
\* response that was never read.
LateHandler ==
    /\ pc \in {"validate", "await"}
    /\ lateCalls < MaxLateCalls
    /\ \E c \in DOMAIN checks :
          /\ checks[c].state # "inflight"
          /\ net[UrlOf(c)].kind \in {"response", "timeout"}
          /\ checks' = [checks EXCEPT ![c] = Resolve(@, "false")]
          /\ beforeCheck' = IF pc = "await" /\ c = <<p, "before">> THEN checks'[c].state ELSE beforeCheck
          /\ afterCheck' = IF pc = "await" /\ c = <<p, "after">> THEN checks'[c].state ELSE afterCheck
    /\ lateCalls' = lateCalls + 1
    /\ UNCHANGED <<localVars, prBody, caller, pc, scanVars, p, urlPairs, warnings, envVars, updateVars,
                   exitCode, thrown>>

\* if (beforeValid && afterValid)
KeepPair(beforeValid, afterValid) == beforeValid = "true" /\ afterValid = "true"

\* both promises have settled: the await resumes, the pair is kept or dropped
JoinChecks ==
    /\ pc = "await"
    /\ beforeCheck \in {"true", "false"} /\ afterCheck \in {"true", "false"}
    /\ urlPairs' = IF KeepPair(beforeCheck, afterCheck)
                   THEN Append(urlPairs, potentialPairs[p]) ELSE urlPairs
    /\ p' = p + 1
    /\ beforeCheck' = "idle"
    /\ afterCheck' = "idle"
    /\ pc' = "validate"
    /\ UNCHANGED <<localVars, prBody, caller, scanVars, checks, lateCalls, warnings, envVars, updateVars,
                   exitCode, thrown>>

\* the two warnings the end of parsePRBody can print
DanglingWarnings(before, after) ==
    (IF Truthy(before) /\ ~Truthy(after)
     THEN <<[kind |-> "before-without-after", value |-> Get(before)]>> ELSE <<>>)
    \o
    (IF Truthy(after) /\ ~Truthy(before)
     THEN <<[kind |-> "after-without-before", value |-> Get(after)]>> ELSE <<>>)

\* the validation loop has ended: print the warnings, return urlPairs
WarnAndReturn ==
    /\ pc = "validate" /\ p > Len(potentialPairs)
    /\ warnings' = warnings \o DanglingWarnings(currentBefore, currentAfter)
    /\ pc' = AfterParse
    /\ UNCHANGED <<localVars, prBody, caller, scanVars, checkVars, urlPairs, envVars, updateVars,
                   exitCode, thrown>>

Scan == ParseStart \/ ScanBefore \/ ScanAfter \/ ScanOther \/ ScanEnd
Validate == StartChecks \/ SettleBefore \/ SettleAfter \/ JoinChecks \/ WarnAndReturn

(***************************************************************************)
(* The configuration document.  The file at backstopPath is missing, holds *)
(* text that is not JSON, or holds a JSON object in some formatting; a     *)
(* JSON object is a record of its top-level fields, its scenarios field a  *)
(* JSON null or a JSON array.                                              *)
(***************************************************************************)
\* no document at backstopPath
Missing == [kind |-> "missing"]
Garbage == [kind |-> "garbage"]
Json(fmt, doc) == [kind |-> "json", fmt |-> fmt, doc |-> doc]
JsonNull == [json |-> "null"]
Arr(items) == [json |-> "array", items |-> items]

\* JSON.stringify(backstopConfig, null, 2)
Stringify(doc) == Json("indent2", doc)

\* !backstopConfig.scenarios
NoScenarios(doc) == "scenarios" \notin DOMAIN doc \/ doc.scenarios = JsonNull

WithScenarios(doc, arr) ==
    [f \in DOMAIN doc \cup {"scenarios"} |-> IF f = "scenarios" THEN arr ELSE doc[f]]

DefaultScenariosAlways(doc) == WithScenarios(doc, Arr(<<>>))

\* if (!backstopConfig.scenarios) backstopConfig.scenarios = []
DefaultScenarios(doc) == IF NoScenarios(doc) THEN WithScenarios(doc, Arr(<<>>)) ELSE doc

LabelOfZeroBased(index) == "Additional test page (" \o ToString(index) \o ")"

\* `Additional test page (${index + 1})`, index the 0-based position of the pair
LabelOf(index) == "Additional test page (" \o ToString(index + 1) \o ")"

\* the scenario built for the pair at 0-based position index
NewScenario(pair, index) ==
    [label |-> LabelOf(index),
     url |-> pair.after,
     referenceUrl |-> pair.before,
     hideSelectors |-> <<".cookie-banner", ".loading-spinner", "[data-testid=\"timestamp\"]", ".logo-garden">>,
     removeSelectors |-> <<".advertisement", ".chat-widget">>,
     misMatchThreshold |-> "0.1"]

\* a push that skips a pair the document already holds a scenario for
PushScenariosOnce(doc, pairs) ==
    LET held(pr) == \E m \in 1..Len(doc.scenarios.items) :
                        /\ doc.scenarios.items[m].url = pr.after
                        /\ doc.scenarios.items[m].referenceUrl = pr.before
        fresh == SelectSeq(pairs, LAMBDA pr : ~held(pr))
    IN  WithScenarios(doc, Arr(doc.scenarios.items
                               \o [k \in 1..Len(fresh) |-> NewScenario(fresh[k], k - 1)]))

\* urlPairs.forEach((pair, index) => backstopConfig.scenarios.push(scenario))
PushScenarios(doc, pairs) ==
    WithScenarios(doc, Arr(doc.scenarios.items
                           \o [k \in 1..Len(pairs) |-> NewScenario(pairs[k], k - 1)]))

\* the document updateBackstopConfig writes and returns
UpdatedConfig(doc, pairs) == PushScenarios(DefaultScenarios(doc), pairs)

(***************************************************************************)
(* Exit codes.                                                             *)
(***************************************************************************)
NoBodyExitCode == 0
NoPairsExitCode == 0
MissingConfigExitCode == 1
CatchExitCodeSuccess == 1 - 1
\* main().catch: process.exit(1)
CatchExitCode == 1
\* main returns and the process ends by itself
NormalExitCode == 0

parseVars == <<scanVars, checkVars, urlPairs, warnings>>

(***************************************************************************)
(* updateBackstopConfig(urlPairs, backstopPath): one synchronous call.     *)
(***************************************************************************)
\* an error thrown by step leaves updateBackstopConfig: main().catch exits the
\* process, a caller of the exported function sees the error
Throw(step) ==
    /\ thrown' = Some(step)
    /\ IF caller = "main"
       THEN pc' = "exited" /\ exitCode' = Some(CatchExitCode)
       ELSE pc' = "thrown" /\ UNCHANGED exitCode

\* !fs.existsSync(backstopPath): process.exit(1)
UpdateMissing ==
    /\ pc = "update"
    /\ file = Missing
    /\ pc' = "exited"
    /\ exitCode' = Some(MissingConfigExitCode)
    /\ UNCHANGED <<localVars, prBody, caller, parseVars, envVars, updateVars, thrown>>

\* fs.readFileSync throws (the file cannot be read), or JSON.parse throws
UpdateReadFails ==
    /\ pc = "update"
    /\ file # Missing
    /\ \/ Throw("read")
       \/ file.kind = "garbage" /\ Throw("parse")
    /\ UNCHANGED <<localVars, prBody, caller, parseVars, envVars, updateVars>>

\* the document is read, parsed and extended; fs.writeFileSync throws, having
\* written nothing or having truncated the file
UpdateWriteFails ==
    /\ pc = "update"
    /\ file.kind = "json"
    /\ backstopConfig' = Some(UpdatedConfig(file.doc, urlPairs))
    /\ writes' = writes + 1
    /\ file' \in {file, Garbage}
    /\ Throw("write")
    /\ UNCHANGED <<localVars, prBody, caller, parseVars, net, file0, exits>>

\* the document is read, parsed, extended and written; the call returns it
UpdateSucceeds ==
    /\ pc = "update"
    /\ file.kind = "json"
    /\ backstopConfig' = Some(UpdatedConfig(file.doc, urlPairs))
    /\ writes' = writes + 1
    /\ file' = Stringify(UpdatedConfig(file.doc, urlPairs))
    /\ IF caller = "main"
       THEN pc' = "exited" /\ exitCode' = Some(NormalExitCode)
       ELSE pc' = "returned" /\ UNCHANGED exitCode
    /\ UNCHANGED <<localVars, prBody, caller, parseVars, net, file0, exits, thrown>>

UpdateBackstopConfig == UpdateMissing \/ UpdateReadFails \/ UpdateWriteFails \/ UpdateSucceeds

(***************************************************************************)
(* main                                                                    *)
(***************************************************************************)
\* if (!prBody) process.exit(0); otherwise await parsePRBody(prBody)
MainStart ==
    /\ pc = "main"
    /\ IF ~Truthy(prBody)
       THEN pc' = "exited" /\ exitCode' = Some(NoBodyExitCode)
       ELSE pc' = "parse" /\ UNCHANGED exitCode
    /\ UNCHANGED <<localVars, prBody, caller, parseVars, envVars, updateVars, thrown>>

NothingToDoNever(pairs) == FALSE

\* urlPairs.length === 0
NothingToDo(pairs) == Len(pairs) = 0

\* parsePRBody has returned: exit 0 without pairs, otherwise update the document
MainParsed ==
    /\ pc = "main_parsed"
    /\ IF NothingToDo(urlPairs)
       THEN pc' = "exited" /\ exitCode' = Some(NoPairsExitCode)
       ELSE pc' = "update" /\ UNCHANGED exitCode
    /\ UNCHANGED <<localVars, prBody, caller, parseVars, envVars, updateVars, thrown>>

Main == MainStart \/ MainParsed

(***************************************************************************)
(* scripts/backstop-local.js                                               *)
(*                                                                         *)
(* An argument is one word.  The text of a URL, a cookie domain or an      *)
(* origin is a sequence of parts, so that replace(/stage--/g, pattern)     *)
(* replaces every part "stage--"; a missing or empty text is <<>>.         *)
(***************************************************************************)
BACKSTOP_CONFIG_PATH == "backstop.json"
BACKUP_CONFIG_PATH == "backstop.json.backup"
COOKIES_PATH == "cookies.json"
BACKUP_COOKIES_PATH == "cookies.json.backup"
Paths == {BACKSTOP_CONFIG_PATH, BACKUP_CONFIG_PATH, COOKIES_PATH, BACKUP_COOKIES_PATH}

\* the words an argument starts with '--' for
DashWords == {"--help", "--url", "--ref", "--debug"}
Commands == {"reference", "test", "approve", "report"}

RECURSIVE parseArgsFrom(_, _, _)
\* the loop of parseArgs from argument k on; help: process.exit(0) was called
parseArgsFrom(args, k, cfg) ==
    IF k > Len(args) THEN cfg
    ELSE IF args[k] = "--help" THEN [cfg EXCEPT !.help = TRUE]
    ELSE IF args[k] = "--url" /\ k + 1 <= Len(args)
    THEN parseArgsFrom(args, k + 2, [cfg EXCEPT !.urlPattern = Some(args[k + 1])])
    ELSE IF args[k] = "--ref" /\ k + 1 <= Len(args)
    THEN parseArgsFrom(args, k + 2, [cfg EXCEPT !.refPattern = Some(args[k + 1])])
    ELSE IF args[k] \notin DashWords /\ args[k] \in Commands
    THEN parseArgsFrom(args, k + 1, [cfg EXCEPT !.command = args[k]])
    ELSE parseArgsFrom(args, k + 1, cfg)

parseArgs(args) ==
    parseArgsFrom(args, 1, [command |-> "test", urlPattern |-> None, refPattern |-> None,
                            help |-> FALSE])

\* a pattern is truthy unless it is null or the empty string
Given(pattern) == IsSome(pattern) /\ Get(pattern) # ""

\* config.urlPattern || config.refPattern
AnyPattern(cfg) == Given(cfg.urlPattern) \/ Given(cfg.refPattern)

\* text.replace(/from/g, to)
Replace(text, from, to) == [k \in DOMAIN text |-> IF text[k] = from THEN to ELSE text[k]]

\* text.includes(part)
Includes(text, part) == \E k \in DOMAIN text : text[k] = part

\* the content of a file: what JSON.parse makes of it ("garbage": it throws;
\* "json": an object with the lists below, "bare": an object without them)
\* and how it is laid out ("raw": as the author wrote it, "indent2": as
\* JSON.stringify(value, null, 2) writes it)
ConfigFile(kind, fmt, scenarios) == [kind |-> kind, fmt |-> fmt, scenarios |-> scenarios]
CookiesFile(kind, fmt, cookies, origins) ==
    [kind |-> kind, fmt |-> fmt, cookies |-> cookies, origins |-> origins]

Exists(d, path) == IsSome(d[path])

\* fs.copyFileSync(src, dst)
CopyFile(d, src, dst) == [d EXCEPT ![dst] = d[src]]

UnlinkNothing(d, path) == d

\* fs.unlinkSync(path)
Unlink(d, path) == [d EXCEPT ![path] = None]

\* fs.writeFileSync(path, content)
WriteFile(d, path, content) == [d EXCEPT ![path] = Some(content)]

\* the file-system operations that may throw for a reason outside the files
\* modelled here (permissions, a full disk)
BackupFaults == {"none", "copyConfig", "copyCookies"}
RestoreFaults == {"none", "copyConfig", "copyCookies"}
UpdateFaults == {"none", "readConfig", "writeConfig", "readCookies", "writeCookies"}

\* backupConfig(): ok is its return value
backupConfig(d, fault) ==
    IF ~Exists(d, BACKSTOP_CONFIG_PATH) \/ fault = "copyConfig"
    THEN [ok |-> FALSE, disk |-> d, written |-> {}]
    ELSE LET d1 == CopyFile(d, BACKSTOP_CONFIG_PATH, BACKUP_CONFIG_PATH)
         IN  IF ~Exists(d1, COOKIES_PATH)
             THEN [ok |-> TRUE, disk |-> d1, written |-> {BACKUP_CONFIG_PATH}]
             ELSE IF fault = "copyCookies"
             THEN [ok |-> FALSE, disk |-> d1, written |-> {BACKUP_CONFIG_PATH}]
             ELSE [ok |-> TRUE,
                   disk |-> CopyFile(d1, COOKIES_PATH, BACKUP_COOKIES_PATH),
                   written |-> {BACKUP_CONFIG_PATH, BACKUP_COOKIES_PATH}]

\* restoreConfig(): failed when a copy threw (the catch logs it)
restoreConfig(d, fault) ==
    IF Exists(d, BACKUP_CONFIG_PATH) /\ fault = "copyConfig"
    THEN [disk |-> d, written |-> {}, failed |-> TRUE]
    ELSE LET had == Exists(d, BACKUP_CONFIG_PATH)
             d1 == IF had
                   THEN Unlink(CopyFile(d, BACKUP_CONFIG_PATH, BACKSTOP_CONFIG_PATH),
                               BACKUP_CONFIG_PATH)
                   ELSE d
             w1 == IF had THEN {BACKSTOP_CONFIG_PATH} ELSE {}
         IN  IF ~Exists(d1, BACKUP_COOKIES_PATH)
             THEN [disk |-> d1, written |-> w1, failed |-> FALSE]
             ELSE IF fault = "copyCookies"
             THEN [disk |-> d1, written |-> w1, failed |-> TRUE]
             ELSE [disk |-> Unlink(CopyFile(d1, BACKUP_COOKIES_PATH, COOKIES_PATH),
                                   BACKUP_COOKIES_PATH),
                   written |-> w1 \cup {COOKIES_PATH},
                   failed |-> FALSE]

\* text.replace(/stage--/g, urlPattern), done when urlPattern and the text are truthy
StageStep(text, urlPattern) ==
    IF Given(urlPattern) /\ text # <<>> THEN Replace(text, "stage--", Get(urlPattern)) ELSE text

\* text.replace(/main--/g, refPattern), done when refPattern and the text are truthy
MainStep(text, refPattern) ==
    IF Given(refPattern) /\ text # <<>> THEN Replace(text, "main--", Get(refPattern)) ELSE text

\* a cookie domain or an origin after the two replacements, the second made
\* on the result of the first
NewText(text, urlPattern, refPattern) == MainStep(StageStep(text, urlPattern), refPattern)

\* modified = true: one of the two replacements changed the text
Touched(text, urlPattern, refPattern) ==
    \/ StageStep(text, urlPattern) # text
    \/ NewText(text, urlPattern, refPattern) # StageStep(text, urlPattern)

\* updateCookies(urlPattern, refPattern): ok is its return value
updateCookies(d, urlPattern, refPattern, fault) ==
    IF ~Exists(d, COOKIES_PATH) THEN [ok |-> TRUE, disk |-> d, written |-> {}]
    ELSE LET cookies == Get(d[COOKIES_PATH])
             texts == cookies.cookies \o cookies.origins
             modified == \E k \in DOMAIN texts : Touched(texts[k], urlPattern, refPattern)
             new == CookiesFile("json", "indent2",
                        [k \in DOMAIN cookies.cookies |->
                            NewText(cookies.cookies[k], urlPattern, refPattern)],
                        [k \in DOMAIN cookies.origins |->
                            NewText(cookies.origins[k], urlPattern, refPattern)])
         IN  IF fault = "readCookies" \/ cookies.kind # "json"
             THEN [ok |-> FALSE, disk |-> d, written |-> {}]
             ELSE IF ~modified THEN [ok |-> TRUE, disk |-> d, written |-> {}]
             ELSE IF fault = "writeCookies" THEN [ok |-> FALSE, disk |-> d, written |-> {}]
             ELSE [ok |-> TRUE, disk |-> WriteFile(d, COOKIES_PATH, new),
                   written |-> {COOKIES_PATH}]

\* one scenario after the loop body of updateConfig
NewUrls(scenario, urlPattern, refPattern) ==
    [url |-> StageStep(scenario.url, urlPattern),
     referenceUrl |-> MainStep(scenario.referenceUrl, refPattern)]

\* updateConfig(urlPattern, refPattern): ok is its return value
updateConfig(d, urlPattern, refPattern, fault) ==
    IF ~Exists(d, BACKSTOP_CONFIG_PATH) \/ fault = "readConfig"
    THEN [ok |-> FALSE, disk |-> d, written |-> {}]
    ELSE LET cfg == Get(d[BACKSTOP_CONFIG_PATH])
             scenarios == [k \in DOMAIN cfg.scenarios |->
                              NewUrls(cfg.scenarios[k], urlPattern, refPattern)]
             modified == scenarios # cfg.scenarios
             d1 == IF modified
                   THEN WriteFile(d, BACKSTOP_CONFIG_PATH,
                                  ConfigFile("json", "indent2", scenarios))
                   ELSE d
             w1 == IF modified THEN {BACKSTOP_CONFIG_PATH} ELSE {}
             r == updateCookies(d1, urlPattern, refPattern, fault)
         IN  IF cfg.kind # "json" \/ (modified /\ fault = "writeConfig")
             THEN [ok |-> FALSE, disk |-> d, written |-> {}]
             ELSE [ok |-> r.ok, disk |-> r.disk, written |-> w1 \cup r.written]

\* the variables of parse-pr-urls
prUrlsVars == <<prBody, caller, pc, scanVars, checkVars, urlPairs, warnings, envVars,
                updateVars, exitCode, thrown>>

HelpExitCode == 0
BackupFailedExitCode == 1
UpdateFailedExitCode == 1
SpawnErrorExitCode == 1
SigintExitCode == 130
SigtermExitCode == 143
RejectionExitCode == 1
\* the codes backstop exits with
ChildExitCodes == {0, 1}

\* process.exit(code)
Exit(code, path) ==
    /\ lpc' = "exited"
    /\ localExit' = Some(code)
    /\ exitPath' = Some(path)

\* main() down to "let exitCode = 0": parseArgs and the two signal handlers
LocalMain ==
    /\ lpc = "main"
    /\ IF parseArgs(argv).help
       THEN Exit(HelpExitCode, "help") /\ UNCHANGED config
       ELSE /\ config' = Some(parseArgs(argv))
            /\ lpc' = IF AnyPattern(parseArgs(argv)) THEN "backup" ELSE "spawn"
            /\ UNCHANGED <<localExit, exitPath>>
    /\ UNCHANGED <<argv, disk, disk0, written, backedUp, restoreFailed, prUrlsVars>>

\* if (!backupConfig()) process.exit(1)
LocalBackup ==
    /\ lpc = "backup"
    /\ \E fault \in BackupFaults :
          LET r == backupConfig(disk, fault)
          IN  /\ disk' = r.disk
              /\ written' = written \cup r.written
              /\ backedUp' = IF r.ok THEN "ok" ELSE "failed"
              /\ IF r.ok
                 THEN lpc' = "update" /\ UNCHANGED <<localExit, exitPath>>
                 ELSE Exit(BackupFailedExitCode, "backupFailed")
    /\ UNCHANGED <<argv, config, disk0, restoreFailed, prUrlsVars>>

\* if (!updateConfig(...)) { restoreConfig(); process.exit(1) }
LocalUpdate ==
    /\ lpc = "update"
    /\ \E fault \in UpdateFaults, rfault \in RestoreFaults :
          LET u == updateConfig(disk, Get(config).urlPattern, Get(config).refPattern, fault)
              r == restoreConfig(u.disk, rfault)
          IN  IF u.ok
              THEN /\ disk' = u.disk
                   /\ written' = written \cup u.written
                   /\ lpc' = "spawn"
                   /\ UNCHANGED <<restoreFailed, localExit, exitPath>>
              ELSE /\ disk' = r.disk
                   /\ written' = written \cup u.written \cup r.written
                   /\ restoreFailed' = r.failed
                   /\ Exit(UpdateFailedExitCode, "updateFailed")
    /\ UNCHANGED <<argv, config, disk0, backedUp, prUrlsVars>>

\* runBackstop(config.command) up to the await: backstop is spawned
LocalRunBackstop ==
    /\ lpc = "spawn"
    /\ lpc' = "running"
    /\ UNCHANGED <<argv, config, disk, localExit, disk0, written, backedUp, restoreFailed,
                   exitPath, prUrlsVars>>

\* restoreConfig() when restore holds, then process.exit(code)
Cleanup(restore, code, path) ==
    /\ \E rfault \in RestoreFaults :
          LET r == IF restore THEN restoreConfig(disk, rfault)
                   ELSE [disk |-> disk, written |-> {}, failed |-> FALSE]
          IN  /\ disk' = r.disk
              /\ written' = written \cup r.written
              /\ restoreFailed' = r.failed
    /\ Exit(code, path)
    /\ UNCHANGED <<argv, config, disk0, backedUp, prUrlsVars>>

\* backstopProcess.on('close'): the await returns the code; finally
OnClose ==
    /\ lpc = "running"
    /\ \E code \in ChildExitCodes : Cleanup(AnyPattern(Get(config)), code, "close")

\* backstopProcess.on('error'): the await throws; catch; finally
OnSpawnError ==
    /\ lpc = "running"
    /\ Cleanup(AnyPattern(Get(config)), SpawnErrorExitCode, "spawnError")

\* process.on('SIGINT'), run when the event loop is free: while main awaits
OnSIGINT ==
    /\ lpc = "running"
    /\ Cleanup(TRUE, SigintExitCode, "SIGINT")

\* process.on('SIGTERM')
OnSIGTERM ==
    /\ lpc = "running"
    /\ Cleanup(TRUE, SigtermExitCode, "SIGTERM")

\* process.on('unhandledRejection'): a promise rejected with no handler while
\* main awaits
OnUnhandledRejection ==
    /\ lpc = "running"
    /\ Cleanup(TRUE, RejectionExitCode, "unhandledRejection")

Local ==
    \/ LocalMain \/ LocalBackup \/ LocalUpdate \/ LocalRunBackstop
    \/ OnClose \/ OnSpawnError \/ OnSIGINT \/ OnSIGTERM \/ OnUnhandledRejection

\* backstop-local has not been started
LocalOff ==
    /\ argv = <<>>
    /\ config = None
    /\ lpc = "off"
    /\ disk = [path \in Paths |-> None]
    /\ localExit = None
    /\ disk0 = [path \in Paths |-> None]
    /\ written = {}
    /\ backedUp = "no"
    /\ restoreFailed = FALSE
    /\ exitPath = None

(***************************************************************************)
(* Inputs.                                                                 *)
(***************************************************************************)
SeqsUpTo(S, n) == UNION {[1..k -> S] : k \in 0..n}

RECURSIVE Join(_)
\* the lines of a text joined by line feeds
Join(ls) ==
    IF ls = <<>> THEN <<>>
    ELSE IF Len(ls) = 1 THEN ls[1]
    ELSE ls[1] \o <<LF>> \o Join(Tail(ls))

\* the state of the variables of parse-pr-urls before the first step of a run
StartParseUrls(body, who, at, network, onDisk) ==
    /\ prBody = body
    /\ caller = who
    /\ pc = at
    /\ lines = <<>>
    /\ i = 0
    /\ currentBefore = None
    /\ currentAfter = None
    /\ potentialPairs = <<>>
    /\ beforeAt = 0
    /\ afterAt = 0
    /\ pairSrc = <<>>
    /\ p = 0
    /\ beforeCheck = "idle"
    /\ afterCheck = "idle"
    /\ checks = <<>>
    /\ lateCalls = 0
    /\ warnings = <<>>
    /\ net = network
    /\ file = onDisk
    /\ file0 = onDisk
    /\ backstopConfig = None
    /\ exitCode = None
    /\ thrown = None
    /\ writes = 0
    /\ exits = <<>>

\* the state of every variable before the first step of a run of parse-pr-urls
Start(body, who, at, network, onDisk) ==
    /\ StartParseUrls(body, who, at, network, onDisk)
    /\ LocalOff

(***************************************************************************)
(* SpecMatch: the scan of one line built from a prefix, a keyword in some  *)
(* letter-casing, a colon, a gap, a value and trailing white space.        *)
(***************************************************************************)
MaxPrefixLen == 2

PrefixChars == {"*", "-", Bullet, " "}
Keyword(kw) == IF kw = "before" THEN <<"b", "e", "f", "o", "r", "e">>
               ELSE <<"a", "f", "t", "e", "r">>
Upper(c) == CASE c = "b" -> "B" [] c = "e" -> "E" [] c = "f" -> "F" [] c = "o" -> "O"
              [] c = "r" -> "R" [] c = "a" -> "A" [] c = "t" -> "T" [] OTHER -> c
Lower(c) == CASE c = "B" -> "b" [] c = "E" -> "e" [] c = "F" -> "f" [] c = "O" -> "o"
              [] c = "R" -> "r" [] c = "A" -> "a" [] c = "T" -> "t" [] OTHER -> c
\* the keyword with the letters at the positions of up in upper case
Cased(kw, up) == [j \in 1..Len(Keyword(kw)) |->
                     IF j \in up THEN Upper(Keyword(kw)[j]) ELSE Keyword(kw)[j]]
MatchGaps == {<<>>, <<" ">>}
MatchValues == {<<>>, <<"u">>, <<"u", CR, "v">>}
MatchTails == {<<>>, <<" ">>}

MatchBodies ==
    {pre \o Cased(kw, up) \o <<":">> \o gap \o val \o tl :
        pre \in SeqsUpTo(PrefixChars, MaxPrefixLen),
        kw \in {"before", "after"},
        up \in SUBSET (1..6),
        gap \in MatchGaps, val \in MatchValues, tl \in MatchTails}

InitMatch ==
    /\ \E body \in MatchBodies :
          Start(Some(body), "lib", "parse", <<>>, Missing)
    /\ urlPairs = <<>>

SpecMatch == InitMatch /\ [][Scan]_vars

(***************************************************************************)
(* SpecScan: parsePRBody called on texts of up to MaxLines lines.          *)
(***************************************************************************)
MaxLines == 4

ScanLines == {
    <<"B", "e", "f", "o", "r", "e", ":", " ", "u">>,
    <<"-", " ", "b", "e", "f", "o", "r", "e", ":", " ", "v">>,
    <<"A", "f", "t", "e", "r", ":", " ", "v">>,
    <<"*", " ", "A", "f", "t", "e", "r", ":", "w">>,
    <<"x">> }
ScanUrls == {<<"u">>, <<"v">>, <<"w">>}
\* every URL answers 200, or all but one do and that one answers 404
ScanNets == {n \in [ScanUrls -> {Response(200), Response(404)}] :
                Cardinality({u \in ScanUrls : n[u] # Response(200)}) <= 1}

ScanBodies == {None, Some(<<>>)} \cup {Some(Join(ls)) : ls \in SeqsUpTo(ScanLines, MaxLines) \ {<<>>}}

InitScan ==
    /\ \E body \in ScanBodies, n \in ScanNets :
          Start(body, "lib", "parse", n, Missing)
    /\ urlPairs = <<>>

SpecScan == InitScan /\ [][Scan \/ Validate]_vars

(***************************************************************************)
(* Documents and texts of the pipeline runs.                               *)
(***************************************************************************)
MaxScenarios == 1
MaxPairs == 2

Homepage == [label |-> "Homepage", url |-> <<"h">>, referenceUrl |-> <<"m">>]
Earlier == [label |-> "Additional test page (1)", url |-> <<"v">>, referenceUrl |-> <<"u">>,
            misMatchThreshold |-> "0.1"]
OtherFields == [id |-> "backstop_default", engine |-> "playwright"]

\* the JSON objects a configuration document may hold: no scenarios field, a
\* null one, or an array of up to MaxScenarios scenarios
Docs == {OtherFields, WithScenarios(OtherFields, JsonNull)}
        \cup {WithScenarios(OtherFields, Arr(sc)) : sc \in SeqsUpTo({Homepage, Earlier}, MaxScenarios)}

Files == {Missing, Garbage} \cup {Json(fmt, d) : fmt \in {"compact", "indent2"}, d \in Docs}

MainUrls == {<<"u">>, <<"v">>}
UrlPairs == {[before |-> b, after |-> a] : b \in MainUrls, a \in MainUrls}

BeforeLine(v) == <<"B", "e", "f", "o", "r", "e", ":", " ">> \o v
AfterLine(v) == <<"-", " ", "A", "f", "t", "e", "r", ":", " ">> \o v

RECURSIVE BlockLines(_)
\* a Before line and an After line for each pair
BlockLines(pairs) ==
    IF pairs = <<>> THEN <<>>
    ELSE <<BeforeLine(pairs[1].before), AfterLine(pairs[1].after)>> \o BlockLines(Tail(pairs))

MainBodies ==
    {None, Some(<<>>), Some(<<"x">>)}
    \cup {Some(Join(BlockLines(ps))) : ps \in SeqsUpTo(UrlPairs, MaxPairs) \ {<<>>}}

(***************************************************************************)
(* Spec: one run of the process (main).                                    *)
(***************************************************************************)
Init ==
    /\ \E body \in MainBodies, n \in [MainUrls -> Outcomes], f \in Files :
          Start(body, "main", "main", n, f)
    /\ urlPairs = <<>>

Next == Main \/ Scan \/ Validate \/ UpdateBackstopConfig

Spec == Init /\ [][Next]_vars

(***************************************************************************)
(* SpecUpdate: a call of the exported updateBackstopConfig.                *)
(***************************************************************************)
InitUpdate ==
    /\ \E f \in Files :
          Start(None, "lib", "update", [u \in MainUrls |-> Response(200)], f)
    /\ urlPairs \in SeqsUpTo(UrlPairs, MaxPairs)

SpecUpdate == InitUpdate /\ [][UpdateBackstopConfig]_vars

(***************************************************************************)
(* SpecTwice: the process run again, with the same text and the same       *)
(* answers of the network, on the document the earlier run left.           *)
(***************************************************************************)
MaxRuns == 2

\* the process is started again
Rerun ==
    /\ pc = "exited"
    /\ Len(exits) + 1 < MaxRuns
    /\ exits' = Append(exits, Get(exitCode))
    /\ pc' = "main"
    /\ lines' = <<>>
    /\ i' = 0
    /\ currentBefore' = None
    /\ currentAfter' = None
    /\ potentialPairs' = <<>>
    /\ beforeAt' = 0
    /\ afterAt' = 0
    /\ pairSrc' = <<>>
    /\ p' = 0
    /\ beforeCheck' = "idle"
    /\ afterCheck' = "idle"
    /\ checks' = <<>>
    /\ lateCalls' = 0
    /\ urlPairs' = <<>>
    /\ warnings' = <<>>
    /\ backstopConfig' = None
    /\ exitCode' = None
    /\ thrown' = None
    /\ UNCHANGED <<localVars, prBody, caller, net, file, file0, writes>>

InitTwice ==
    /\ \E body \in MainBodies, n \in [MainUrls -> {Response(200), Response(404)}], f \in Files :
          Start(body, "main", "main", n, f)
    /\ urlPairs = <<>>

SpecTwice == InitTwice /\ [][Next \/ Rerun]_vars

(***************************************************************************)
(* What the specification calls a marker line, stated on the raw line      *)
(* without the scan's own matcher.                                         *)
(***************************************************************************)
\* the positions n of the trimmed line t such that t[1..n] is a run of bullet
\* characters and white space and the keyword kw, a colon and a value that is
\* not blank follow, the keyword in any letter-casing
MarkerSplits(kw, t) ==
    {n \in 0..Len(t) :
        /\ \A k \in 1..n : t[k] \in {"*", "-", Bullet, " ", TAB, CR}
        /\ Len(t) > n + Len(Keyword(kw))
        /\ \A k \in 1..Len(Keyword(kw)) : Lower(t[n + k]) = Keyword(kw)[k]
        /\ t[n + Len(Keyword(kw)) + 1] = ":"
        /\ Trim(Drop(t, n + Len(Keyword(kw)) + 1)) # <<>>}

\* the keyword in any letter-casing
IsMarkerAnyCase(kw, line) == MarkerSplits(kw, Trim(line)) # {}

\* the value of a marker line: the trimmed remainder after the colon
MarkerValue(kw, line) ==
    LET t == Trim(line)
        n == CHOOSE n \in MarkerSplits(kw, t) : TRUE
    IN  Trim(Drop(t, n + Len(Keyword(kw)) + 1))

\* the keyword with its first letter in either case and the others in lower
\* case, and a value that holds no line terminator
IsMarkerFirstLetterCase(kw, line) ==
    LET t == Trim(line)
    IN  /\ \E n \in MarkerSplits(kw, t) :
              \A k \in 2..Len(Keyword(kw)) : t[n + k] = Keyword(kw)[k]
        /\ \A k \in 1..Len(MarkerValue(kw, line)) : MarkerValue(kw, line)[k] \notin LineTerminator

Slot(kw) == IF kw = "before" THEN currentBefore ELSE currentAfter

\* the scan of a body of one line has ended
OneLineScanned ==
    /\ pc = "validate"
    /\ Truthy(prBody)
    /\ Len(SplitLines(Get(prBody))) = 1

RawLines == SplitLines(Get(prBody))

\* what a line is: a well-formed Before or After marker with its value, a line
\* that holds no keyword with a colon and a value in any letter-casing
\* ("plain"), or a keyword in a letter-casing the patterns do not spell ("odd")
Classify(line) ==
    IF IsMarkerFirstLetterCase("before", line)
    THEN [kind |-> "before", value |-> MarkerValue("before", line)]
    ELSE IF IsMarkerFirstLetterCase("after", line)
    THEN [kind |-> "after", value |-> MarkerValue("after", line)]
    ELSE IF IsMarkerAnyCase("before", line) \/ IsMarkerAnyCase("after", line)
    THEN [kind |-> "odd", value |-> <<>>]
    ELSE [kind |-> "plain", value |-> <<>>]

\* the lines of the text, classified
Classified == [j \in 1..Len(RawLines) |-> Classify(RawLines[j])]

\* the marker lines among the classified lines cl, in order
MarkersOf(cl) == SelectSeq(cl, LAMBDA c : c.kind \in {"before", "after"})

\* the marker lines alternate strictly, Before first, and every other line
\* is plain
StrictlyAlternating(cl) ==
    /\ \A j \in 1..Len(cl) : cl[j].kind # "odd"
    /\ Len(MarkersOf(cl)) % 2 = 0
    /\ \A k \in 1..Len(MarkersOf(cl)) :
          MarkersOf(cl)[k].kind = (IF k % 2 = 1 THEN "before" ELSE "after")

\* the scan of the text has run to its end
ScanDone == Truthy(prBody) /\ pc \notin {"parse", "scan"}

\* C3: when the text holds N Before lines and N After lines in strict
\* alternation, Before first, the scan yields exactly N candidate pairs and the
\* i-th pair holds the value of the i-th Before line and of the i-th After line.
C3_AlternatingPairsExtracted ==
    ScanDone =>
        LET cl == Classified
            mk == MarkersOf(cl)
        IN  StrictlyAlternating(cl) =>
                /\ Len(potentialPairs) * 2 = Len(mk)
                /\ \A k \in 1..Len(potentialPairs) :
                      /\ potentialPairs[k].before = mk[2 * k - 1].value
                      /\ potentialPairs[k].after = mk[2 * k].value

\* C3 witness: a text of two Before/After pairs with different values was
\* scanned into two candidate pairs
C3_Witness ==
    /\ ScanDone /\ StrictlyAlternating(Classified)
    /\ Len(MarkersOf(Classified)) = 4
    /\ Len(potentialPairs) = 2
    /\ potentialPairs[1] # potentialPairs[2]
    /\ potentialPairs[1].before # potentialPairs[1].after

\* the slots and the history of the scan are consistent
C4_SlotsInv ==
    /\ Len(currentBefore) <= 1 /\ Len(currentAfter) <= 1
    /\ Len(pairSrc) = Len(potentialPairs)
    /\ \A m \in 1..Len(pairSrc) :
          /\ 0 < pairSrc[m][1] /\ pairSrc[m][1] < pairSrc[m][2]
          /\ \A n \in 1..Len(pairSrc) :
                m # n => pairSrc[m][1] # pairSrc[n][1] /\ pairSrc[m][2] # pairSrc[n][2]

\* a step that emits emits one pair, made of the pending before value and
\* the after value of the line scanned, and leaves both slots empty
C4_EmitStep ==
    potentialPairs' # potentialPairs =>
        /\ Len(potentialPairs') = Len(potentialPairs) + 1
        /\ SubSeq(potentialPairs', 1, Len(potentialPairs)) = potentialPairs
        /\ Truthy(currentBefore)
        /\ potentialPairs'[Len(potentialPairs')].before = Get(currentBefore)
        /\ potentialPairs'[Len(potentialPairs')].after # <<>>
        /\ potentialPairs'[Len(potentialPairs')].after = Trim(Get(MatchMarker("after", lines[i])))
        /\ currentBefore' = None
        /\ currentAfter' = None

\* C4: the scan holds at most one pending before value and one pending after
\* value; a candidate pair is emitted only in a step in which both are present,
\* that step clears both slots, and no Before-line or After-line assignment
\* contributes to more than one emitted pair.
C4_ScanStateMachine == [](C4_SlotsInv) /\ [][C4_EmitStep]_vars

\* C4 witness: a pair was emitted from lines 1 and 3 and the after value of
\* line 4 is pending with no before value
C4_Witness ==
    /\ pc = "scan"
    /\ Len(potentialPairs) = 1
    /\ pairSrc[1] = <<1, 3>>
    /\ IsSome(currentAfter) /\ ~IsSome(currentBefore)
    /\ afterAt = 4

WarnedAbout(k, v) == \E m \in 1..Len(warnings) : warnings[m] = [kind |-> k, value |-> v]

\* C5: when parsePRBody has returned, each before value and each after value
\* still pending at the end of the text was reported in a warning, and the
\* line that set it contributed to no returned pair.
C5_DanglingValuesWarned ==
    (pc = "returned" /\ Truthy(prBody)) =>
        /\ Truthy(currentBefore) =>
              /\ WarnedAbout("before-without-after", Get(currentBefore))
              /\ \A m \in 1..Len(pairSrc) : pairSrc[m][1] # beforeAt
        /\ Truthy(currentAfter) =>
              /\ WarnedAbout("after-without-before", Get(currentAfter))
              /\ \A m \in 1..Len(pairSrc) : pairSrc[m][2] # afterAt

(***************************************************************************)
(* Claims about updateBackstopConfig (SpecUpdate).                         *)
(***************************************************************************)
\* the scenarios of a document on disk (none when it has no collection)
ScenariosOf(f) == IF NoScenarios(f.doc) THEN <<>> ELSE f.doc.scenarios.items

\* the fields of the document at the start, scenarios apart, are still there
OtherFieldsKept ==
    \A f \in DOMAIN file0.doc \ {"scenarios"} : f \in DOMAIN file.doc /\ file.doc[f] = file0.doc[f]

\* the k-th of the scenarios sc, counted from position base, is the one of the
\* k-th validated pair
IsScenarioOf(sc, base, k) ==
    /\ sc[base + k].label = "Additional test page (" \o ToString(k) \o ")"
    /\ sc[base + k].url = urlPairs[k].after
    /\ sc[base + k].referenceUrl = urlPairs[k].before

\* C1: updateBackstopConfig applied to K validated pairs and a document with M
\* scenarios leaves a document with M+K scenarios: the M it had, unchanged and
\* in order, then for i in 1..K one labelled 'Additional test page (i)' with
\* the i-th pair's after as url and before as referenceUrl; every other
\* top-level field is unchanged.
C1_ScenariosAppended ==
    (pc = "returned" /\ file0.kind = "json" /\ ~NoScenarios(file0.doc)) =>
        LET old == file0.doc.scenarios.items
            new == file.doc.scenarios.items
        IN  /\ file.kind = "json"
            /\ backstopConfig = Some(file.doc)
            /\ Len(new) = Len(old) + Len(urlPairs)
            /\ SubSeq(new, 1, Len(old)) = old
            /\ \A k \in 1..Len(urlPairs) : IsScenarioOf(new, Len(old), k)
            /\ DOMAIN file.doc = DOMAIN file0.doc
            /\ OtherFieldsKept

\* C1 witness: two different pairs were appended behind one earlier scenario
C1_Witness ==
    /\ pc = "returned" /\ file0.kind = "json" /\ ~NoScenarios(file0.doc)
    /\ Len(file0.doc.scenarios.items) = 1
    /\ Len(urlPairs) = 2 /\ urlPairs[1] # urlPairs[2]
    /\ Len(file.doc.scenarios.items) = 3

\* C7, as stated: updateBackstopConfig applied to no pair leaves every
\* parseable document, one without a scenario collection included, with the
\* same top-level fields and the same values.
C7_EmptyInputLeavesDocument ==
    (pc = "returned" /\ urlPairs = <<>>) =>
        /\ file.kind = "json"
        /\ file.doc = file0.doc

\* C7, amended: applied to no pair, updateBackstopConfig leaves a document
\* that has a scenario collection with the same top-level fields and values;
\* to a document that has none (no scenarios field, or a null one) it adds an
\* empty scenario collection and changes no other field; no scenario is added.
C7_EmptyInputAddsAtMostEmptyCollection ==
    (pc = "returned" /\ urlPairs = <<>>) =>
        /\ file.kind = "json"
        /\ file.fmt = "indent2"
        /\ ~NoScenarios(file0.doc) => file.doc = file0.doc
        /\ NoScenarios(file0.doc) =>
              /\ DOMAIN file.doc = DOMAIN file0.doc \cup {"scenarios"}
              /\ file.doc.scenarios = Arr(<<>>)
              /\ OtherFieldsKept
        /\ ScenariosOf(file) = ScenariosOf(file0)

\* C7 witness: a compact document with one scenario went through a call with
\* no pair and was written back
C7_Witness ==
    /\ pc = "returned" /\ urlPairs = <<>>
    /\ file0.fmt = "compact"
    /\ ScenariosOf(file0) = <<Homepage>>
    /\ writes = 1

(***************************************************************************)
(* Claims about the process (Spec, SpecTwice).                             *)
(***************************************************************************)
\* both checks of the pair meet a response with status 200
BothAnswer200(pair) ==
    /\ net[pair.before] = Response(200)
    /\ net[pair.after] = Response(200)

\* C2: parsePRBody returns exactly the candidate pairs whose before check and
\* after check both returned status 200, in input order; any other status, a
\* connection error, a timeout or a malformed URL on either side drops the
\* pair, and none of them raises an error out of parsePRBody.
C2_ValidatedAreBoth200 ==
    /\ pc = "main_parsed" =>
          /\ urlPairs = SelectSeq(potentialPairs, BothAnswer200)
          /\ exitCode = None
    /\ pc \in {"parse", "scan", "validate", "await", "main_parsed"} => thrown = None

\* C2 witness: of two candidate pairs the one with a URL that timed out or
\* was malformed was dropped and the other kept
C2_Witness ==
    /\ pc = "main_parsed"
    /\ Len(potentialPairs) = 2 /\ urlPairs = <<potentialPairs[2]>>
    /\ net[potentialPairs[1].after].kind \in {"timeout", "malformed"}

AnyValidates == \E k \in 1..Len(potentialPairs) : BothAnswer200(potentialPairs[k])

\* C8: the process exits with 0 when no text is supplied, when no pair
\* survives validation and when the document was updated; once a pair has
\* validated it exits with 1 when the document is missing or reading, parsing
\* or writing it fails; it exits with no other code.
C8_ExitCodes ==
    pc = "exited" =>
        /\ exitCode \in {Some(0), Some(1)}
        /\ ~Truthy(prBody) => exitCode = Some(0)
        /\ (Truthy(prBody) /\ ~AnyValidates) => exitCode = Some(0)
        /\ (AnyValidates /\ file0 # Missing /\ thrown = None) =>
              /\ exitCode = Some(0)
              /\ file = Stringify(Get(backstopConfig))
        /\ (AnyValidates /\ (file0 = Missing \/ thrown # None)) => exitCode = Some(1)
        /\ thrown # None => (AnyValidates /\ Get(thrown) \in {"read", "parse", "write"})

\* C8 witness: a pair validated and the document was not JSON
C8_Witness ==
    /\ pc = "exited"
    /\ AnyValidates
    /\ thrown = Some("parse")
    /\ exitCode = Some(1)

\* C9: in a run in which no text is supplied or no candidate pair has both
\* URLs answering 200, the document is never written and holds at exit what it
\* held at the start; when the document is missing no file is created.
C9_NothingToDoWritesNothing ==
    /\ (pc = "exited" /\ (~Truthy(prBody) \/ ~AnyValidates)) =>
          /\ writes = 0
          /\ file = file0
    /\ file0 = Missing => (file = Missing /\ writes = 0)

\* C9 witness: the only candidate pair's after URL answered 404 and the
\* process exited next to an existing document
C9_Witness ==
    /\ pc = "exited"
    /\ Len(potentialPairs) = 1
    /\ net[potentialPairs[1].before] = Response(200)
    /\ net[potentialPairs[1].after] = Response(404)
    /\ file0.kind = "json"
    /\ exitCode = Some(0)

\* C10: two runs with the same text and the same answers, each of which
\* updated the document, leave the M scenarios it held followed by the K
\* scenarios of the first run and K further scenarios of the second run,
\* labelled again 'Additional test page (1)' .. 'Additional test page (K)'.
C10_SecondRunAppendsAgain ==
    (pc = "exited" /\ exits = <<0>> /\ exitCode = Some(0) /\ writes = 2) =>
        LET old == ScenariosOf(file0)
            new == ScenariosOf(file)
            K == Len(urlPairs)
        IN  /\ K > 0
            /\ Len(new) = Len(old) + 2 * K
            /\ SubSeq(new, 1, Len(old)) = old
            /\ \A k \in 1..K : IsScenarioOf(new, Len(old), k) /\ IsScenarioOf(new, Len(old) + K, k)

\* C10 witness: the second run ended with two pairs appended twice behind
\* one earlier scenario
C10_Witness ==
    /\ pc = "exited" /\ exits = <<0>> /\ exitCode = Some(0) /\ writes = 2
    /\ Len(urlPairs) = 2
    /\ Len(ScenariosOf(file0)) = 1
    /\ Len(ScenariosOf(file)) = 5

(***************************************************************************)
(* SpecChecks: parsePRBody called on texts of up to MaxPairs pairs, every  *)
(* URL meeting any outcome; the handlers of a request may run again after  *)
(* its promise has settled.  The thread of control takes its next step     *)
(* whenever it can, and every request that was sent yields a response, an  *)
(* error or a timeout.  (The other specifications leave LateHandler out:   *)
(* it changes no variable but lateCalls.)                                  *)
(***************************************************************************)
InitChecks ==
    /\ \E body \in MainBodies, n \in [MainUrls -> Outcomes] :
          Start(body, "lib", "parse", n, Missing)
    /\ urlPairs = <<>>

NextChecks == Scan \/ Validate \/ LateHandler

SpecChecks ==
    /\ InitChecks
    /\ [][NextChecks]_vars
    /\ WF_vars(Scan \/ StartChecks \/ JoinChecks \/ WarnAndReturn)
    /\ WF_vars(SettleBefore)
    /\ WF_vars(SettleAfter)

(***************************************************************************)
(* Claims about the validation phase (SpecChecks).                         *)
(***************************************************************************)
Sides == {"before", "after"}
InFlight == {c \in DOMAIN checks : checks[c].state = "inflight"}

\* the number of candidate pairs whose checks have been started
PairsStarted == IF pc = "await" THEN p ELSE IF p = 0 THEN 0 ELSE p - 1

C11_ChecksInv ==
    /\ DOMAIN checks = (1..PairsStarted) \X Sides
    /\ \A c \in InFlight : pc = "await" /\ c[1] = p
    /\ Cardinality(InFlight) <= 2
    /\ \A c \in DOMAIN checks :
          /\ checks[c].state \in {"inflight", "true", "false"}
          /\ checks[c].settled = (IF checks[c].state = "inflight" THEN 0 ELSE 1)
    /\ pc = "returned" /\ Truthy(prBody) => PairsStarted = Len(potentialPairs)

\* a step that starts checks starts the two checks of the next pair, with no
\* check in flight and every earlier check settled; a settled check keeps its
\* value
C11_StartStep ==
    /\ DOMAIN checks' # DOMAIN checks =>
          /\ InFlight = {}
          /\ \A c \in DOMAIN checks : checks[c].settled = 1
          /\ DOMAIN checks' \ DOMAIN checks = {<<PairsStarted + 1, sd>> : sd \in Sides}
    /\ \A c \in DOMAIN checks \cap DOMAIN checks' :
          checks[c].state # "inflight" => checks'[c] = checks[c]

\* a bound on the steps left before parsePRBody returns: five for each line
\* still to scan, four for each candidate pair still to validate, one for
\* each check in flight, one for each late handler call still possible
StepsLeft ==
    (MaxLateCalls - lateCalls)
    + (CASE pc = "parse" ->
               IF Truthy(prBody) THEN 5 * Len(TrimmedLines(Get(prBody))) + 3 ELSE 1
         [] pc = "scan" -> 5 * (Len(lines) + 1 - i) + 4 * Len(potentialPairs) + 2
         [] pc = "validate" -> 4 * (Len(potentialPairs) + 1 - p) + 1
         [] pc = "await" -> 4 * (Len(potentialPairs) - p) + 2 + Cardinality(InFlight)
         [] OTHER -> 0)

\* every step brings the return nearer
C11_Decreases == StepsLeft' < StepsLeft /\ StepsLeft' >= 0

\* as long as the validation phase lasts the loop, or a request it waits for,
\* can take a step
C11_CanAdvance == pc \in {"validate", "await"} => ENABLED Validate

\* C11: in the validation phase all in-flight checks belong to one candidate
\* pair (at most its before and its after check, started together); the
\* checks of the next pair start only when both checks of the pair before have
\* settled; every check settles exactly once, with a boolean; and, every
\* request yielding a response, an error or a timeout, the phase ends: while
\* it lasts a step of the loop or of a pending request is always possible, and
\* every step lowers a natural-number bound on the steps left.
C11_ValidationOnePairAtATime ==
    /\ [](C11_ChecksInv /\ C11_CanAdvance)
    /\ [][C11_StartStep /\ C11_Decreases]_vars

\* C11 witness: the checks of the first pair have settled, a handler of one
\* of them has run once more, and of the second pair the before check has
\* settled true while the after check is in flight
C11_Witness ==
    /\ pc = "await" /\ p = 2
    /\ lateCalls = 1
    /\ checks[<<1, "before">>].settled = 1 /\ checks[<<1, "after">>].settled = 1
    /\ checks[<<2, "before">>].state = "true"
    /\ InFlight = {<<2, "after">>}

(***************************************************************************)
(* SpecLocal: one run of backstop-local, with any command line of ArgLists *)
(* and any files on disk, stale backup files included.  A copy, a read or  *)
(* a write may fail; backstop may exit with any code or fail to spawn; a   *)
(* signal may arrive while backstop runs.                                  *)
(***************************************************************************)
\* the most scenarios, cookies or origins in a file
MaxItems == 1

ArgLists ==
    { <<>>, <<"test">>, <<"--help">>, <<"--debug", "approve">>,
      <<"--url">>, <<"--url", "">>, <<"--url", "--help">>,
      <<"--url", "feat--">>, <<"--url", "stage--">>,
      <<"reference", "--ref", "prod--">>,
      <<"--url", "feat--", "--ref", "prod--">>,
      <<"--url", "main--", "--ref", "stage--">> }

ScenarioChoices ==
    [url : {<<"stage--", "a">>, <<"a">>}, referenceUrl : {<<"main--", "a">>, <<>>}]
DomainChoices == {<<"stage--", "a">>, <<"main--", "stage--">>}
OriginChoices == {<<"main--", "a">>}
Layouts == {"raw", "indent2"}

ConfigFiles ==
    {ConfigFile("garbage", "raw", <<>>), ConfigFile("bare", "raw", <<>>)}
    \cup {ConfigFile("json", f, sc) : f \in Layouts, sc \in SeqsUpTo(ScenarioChoices, MaxItems)}

CookiesFiles ==
    {CookiesFile("garbage", "raw", <<>>, <<>>)}
    \cup {CookiesFile("json", f, c, o) :
              f \in Layouts, c \in SeqsUpTo(DomainChoices, MaxItems),
              o \in SeqsUpTo(OriginChoices, MaxItems)}

\* what an earlier run has left in a backup file
StaleConfig == ConfigFile("json", "raw", <<[url |-> <<"old">>, referenceUrl |-> <<>>]>>)
StaleCookies == CookiesFile("json", "raw", <<<<"old">>>>, <<>>)

Optional(S) == {None} \cup {Some(x) : x \in S}

Disks ==
    { (BACKSTOP_CONFIG_PATH :> c) @@ (BACKUP_CONFIG_PATH :> cb)
      @@ (COOKIES_PATH :> k) @@ (BACKUP_COOKIES_PATH :> kb) :
        c \in Optional(ConfigFiles), cb \in Optional({StaleConfig}),
        k \in Optional(CookiesFiles), kb \in Optional({StaleCookies}) }

InitLocal ==
    /\ StartParseUrls(None, "lib", "off", <<>>, Missing)
    /\ urlPairs = <<>>
    /\ argv \in ArgLists
    /\ config = None
    /\ lpc = "main"
    /\ disk \in Disks
    /\ disk0 = disk
    /\ localExit = None
    /\ written = {}
    /\ backedUp = "no"
    /\ restoreFailed = FALSE
    /\ exitPath = None

SpecLocal == InitLocal /\ [][Local]_vars

(***************************************************************************)
(* Claims about backstop-local (SpecLocal).                                *)
(***************************************************************************)
\* the run has exited, was given a pattern, found no backup file when it
\* started, its backupConfig succeeded and no copy of restoreConfig failed
BackedUpRunExited ==
    /\ lpc = "exited"
    /\ IsSome(config) /\ AnyPattern(Get(config))
    /\ ~Exists(disk0, BACKUP_CONFIG_PATH) /\ ~Exists(disk0, BACKUP_COOKIES_PATH)
    /\ backedUp = "ok"
    /\ ~restoreFailed

\* C12: when a run of backstop-local that was given --url and/or --ref,
\* started with no backup file and backed up successfully has exited, by
\* whatever path, and no restore copy failed, backstop.json and cookies.json
\* hold exactly what they held when the run started and neither backup file
\* remains.
C12_ExitRestoresFiles ==
    BackedUpRunExited =>
        /\ disk[BACKSTOP_CONFIG_PATH] = disk0[BACKSTOP_CONFIG_PATH]
        /\ disk[COOKIES_PATH] = disk0[COOKIES_PATH]
        /\ ~Exists(disk, BACKUP_CONFIG_PATH)
        /\ ~Exists(disk, BACKUP_COOKIES_PATH)

\* C12 witness: a run that rewrote both backstop.json and cookies.json was
\* interrupted by SIGINT while backstop ran, and has exited
C12_Witness ==
    /\ BackedUpRunExited
    /\ exitPath = Some("SIGINT")
    /\ {BACKSTOP_CONFIG_PATH, COOKIES_PATH, BACKUP_CONFIG_PATH, BACKUP_COOKIES_PATH}
           \subseteq written
    /\ Get(disk0[BACKSTOP_CONFIG_PATH]).fmt = "raw"

\* neither --url nor --ref occurs on the command line
NoPatternArgs == \A k \in DOMAIN argv : argv[k] \notin {"--url", "--ref"}

\* C13: a run of backstop-local given neither --url nor --ref never writes
\* backstop.json or cookies.json, whatever files exist when it starts.
C13_NoPatternRunWritesNothing ==
    NoPatternArgs => written \cap {BACKSTOP_CONFIG_PATH, COOKIES_PATH} = {}

====
